---- MODULE Spec2Model ----
\* Expense tracker bot (src/bot.py): the worksheet as a row store, the recording
\* commands that append to it, and the reporting commands that read it through
\* ensure_headers / get_processed_records and aggregate the normalized frame.
EXTENDS Integers, Sequences, FiniteSets, TLC

\* ---------------------------------------------------------------- bounds
\* Largest number of transaction rows a ledger grows to by recording commands.
MaxRows == 2

\* ---------------------------------------------------------------- calendar
\* Proleptic Gregorian calendar as datetime/pandas compute it; a day is its
\* ordinal (date.toordinal()).
IsLeap(y) == (y % 4 = 0) /\ ((y % 100 # 0) \/ (y % 400 = 0))

\* calendar.monthrange(year, month)[1]
monthrange(y, m) ==
    IF m = 2 THEN (IF IsLeap(y) THEN 29 ELSE 28)
    ELSE IF m \in {4, 6, 9, 11} THEN 30 ELSE 31

DaysBeforeYear(y) ==
    LET p == y - 1 IN p * 365 + (p \div 4) - (p \div 100) + (p \div 400)

RECURSIVE DaysBeforeMonth(_, _)
DaysBeforeMonth(y, m) ==
    IF m = 1 THEN 0 ELSE DaysBeforeMonth(y, m - 1) + monthrange(y, m - 1)

\* datetime(year, month, day).date() as an ordinal
Ymd2Ord(y, m, d) == DaysBeforeYear(y) + DaysBeforeMonth(y, m) + d

\* year of an ordinal
YearOf(o) ==
    LET n0   == o - 1
        n400 == n0 \div 146097
        r400 == n0 % 146097
        n100 == r400 \div 36524
        r100 == r400 % 36524
        n4   == r100 \div 1461
        r4   == r100 % 1461
        n1   == r4 \div 365
        y    == n400 * 400 + n100 * 100 + n4 * 4 + n1 + 1
    IN IF n1 = 4 \/ n100 = 4 THEN y - 1 ELSE y

RECURSIVE MonthFrom(_, _, _)
MonthFrom(y, m, rest) ==
    IF rest <= monthrange(y, m) THEN m ELSE MonthFrom(y, m + 1, rest - monthrange(y, m))

MonthOf(o) == MonthFrom(YearOf(o), 1, o - DaysBeforeYear(YearOf(o)))

DayOf(o) == o - DaysBeforeYear(YearOf(o)) - DaysBeforeMonth(YearOf(o), MonthOf(o))

\* date.weekday(): Monday is 0
weekday(o) == (o + 6) % 7

\* Monday of ISO week 1 of a year (the week holding the year's first Thursday)
IsoWeek1Monday(y) ==
    LET firstday     == Ymd2Ord(y, 1, 1)
        firstweekday == weekday(firstday)
        monday       == firstday - firstweekday
    IN IF firstweekday > 3 THEN monday + 7 ELSE monday

\* isocalendar().year
IsoYear(o) ==
    LET y == YearOf(o)
    IN IF o < IsoWeek1Monday(y) THEN y - 1
       ELSE IF o >= IsoWeek1Monday(y + 1) THEN y + 1
       ELSE y

\* isocalendar()[1] / .dt.isocalendar().week
IsoWeek(o) == ((o - IsoWeek1Monday(IsoYear(o))) \div 7) + 1

\* ---------------------------------------------------------------- cell text
Pad2(n) == IF n < 10 THEN "0" \o ToString(n) ELSE ToString(n)

\* strftime('%Y-%m')
StrftimeYm(o) == ToString(YearOf(o)) \o "-" \o Pad2(MonthOf(o))

\* strftime('%Y-%m-%d %H:%M:%S'); the model samples one instant per day
strftime(o) == StrftimeYm(o) \o "-" \o Pad2(DayOf(o)) \o " 12:00:00"

\* str(amount) of a float holding a whole number
StrAmount(a) == ToString(a) \o ".0"

\* ---------------------------------------------------------------- inputs
HEADERS == <<"User", "Amount", "Description", "Category", "Type", "Date">>

\* str(interaction.user) / str(ctx.author) of the members issuing commands
Users == {"ann", "bob"}
\* category argument of the category command
Categories == {"Food"}
\* Sampled arguments <<user, amount, description, category>> of /expense and
\* /income (amount is a float with no range check, description is "" when left
\* blank) and <<user, amount, description>> of !expense and !income
ExpenseArgs == { <<"ann", 10, "", "Rent">>, <<"ann", -5, "", "Food">>,
                 <<"bob", 10, "", "Food">> }
IncomeArgs == { <<"ann", 10, "pay", "Salary">> }
ExpensePrefixArgs == { <<"ann", 10, "lunch">> }
IncomePrefixArgs == { <<"bob", 10, "gift">> }
Periods == {"all", "month", "week"}
Types == {"Expense", "Income", "All"}
ChartTypes == {"expense_by_category", "income_by_category",
               "income_vs_expense", "balance_over_time"}
\* limit argument of history
Limits == {-1, 0, 2}

\* Sampled instants of datetime.now(), in time order: Mon 2024-12-30 and
\* Wed 2025-01-01, both in ISO week 1 of 2025.
Clock == << Ymd2Ord(2024, 12, 30), Ymd2Ord(2025, 1, 1) >>

\* An instant of the year before, when the ledger was already in use:
\* Wed 2024-01-03, in ISO week 1 of 2024.
LastYear == Ymd2Ord(2024, 1, 3)

\* Days whose timestamp text occurs in a Date cell
KnownDays == {Clock[i] : i \in DOMAIN Clock} \cup {LastYear}
DateText == [o \in KnownDays |-> strftime(o)]

\* Numbers whose text occurs in an Amount cell
KnownAmounts == {-5, 10, 20}
AmountText == [a \in KnownAmounts |-> StrAmount(a)]

\* Sheet contents found when the bot connects (the spreadsheet outlives the
\* bot and can be edited by hand): an empty sheet, a sheet with only the
\* header, a ledger with a hand-entered row, a ledger whose header row was
\* removed, a ledger whose columns were reordered, and a ledger with rows
\* whose Date cell or Type cell was left blank.
InitSheets ==
    { << >>,
      << HEADERS >>,
      << HEADERS,
         <<"ann", "abc", "", "Rent", "", "soon">>,
         <<"ann", AmountText[20], "lunch", "Food", "Expense", DateText[LastYear]>> >>,
      << <<"ann", AmountText[10], "lunch", "Food", "Expense", DateText[LastYear]>>,
         <<"bob", AmountText[10], "N/A", "Rent", "Expense", DateText[LastYear]>> >>,
      << <<"User", "Amount", "Description", "Category", "Date", "Type">>,
         <<"bob", AmountText[10], "N/A", "Food", DateText[LastYear], "Expense">> >>,
      << HEADERS,
         <<"bob", AmountText[20], "gift", "Salary", "Income", "">>,
         <<"ann", AmountText[20], "misc", "Food", "", DateText[LastYear]>> >> }

\* ---------------------------------------------------------------- state
VARIABLES
    worksheet,  \* "sheet1", or "None" when the connection failed at start-up
    sheet,      \* the worksheet's rows, each a tuple of six cell texts
    tick,       \* index into Clock of datetime.now()
    reply       \* the response of the command being handled, Blank between commands
vars == <<worksheet, sheet, tick, reply>>

now == Clock[tick]

\* ---------------------------------------------------------------- worksheet
\* worksheet.insert_row(values, 1)
insert_row(s, values) == <<values>> \o s
\* worksheet.delete_row(1)
delete_row(s) == Tail(s)
\* worksheet.append_row(values)
append_row(s, values) == Append(s, values)
\* worksheet.update_cell(row, col, value)
update_cell(s, r, c, value) == [s EXCEPT ![r][c] = value]

\* ensure_headers changed to insert the header row without looking at row 1
ensure_headers_insert(s) == insert_row(s, HEADERS)

\* ensure_headers(): the rows it leaves in the worksheet
ensure_headers(s) ==
    IF s = << >> THEN insert_row(s, HEADERS)
    ELSE IF s[1] # HEADERS THEN insert_row(delete_row(s), HEADERS)
    ELSE s

\* ---------------------------------------------------------------- normalizer
\* The missing-value marker of an object column. get_all_values() returns a
\* str for every cell ('' for a blank one), so no cell of the frame carries it.
NA == "<NA>"

HasCol(headers, name) == \E i \in 1..Len(headers) : headers[i] = name
Col(headers, name) == CHOOSE i \in 1..Len(headers) : headers[i] = name

\* pd.to_numeric(text, errors='coerce')
to_numeric(text) ==
    IF \E a \in KnownAmounts : AmountText[a] = text
    THEN [nan |-> FALSE, val |-> CHOOSE a \in KnownAmounts : AmountText[a] = text]
    ELSE [nan |-> TRUE, val |-> 0]

\* pd.to_datetime(text, errors='coerce'); nat marks NaT
to_datetime(text) ==
    IF \E o \in KnownDays : DateText[o] = text
    THEN [nat |-> FALSE, ord |-> CHOOSE o \in KnownDays : DateText[o] = text]
    ELSE [nat |-> TRUE, ord |-> 0]

\* fillna of a numeric cell
fillna_num(x, default) == IF x.nan THEN default ELSE x.val
\* fillna of an object cell
fillna_obj(c, default) == IF c = NA THEN default ELSE c

\* One row of the frame built by pd.DataFrame(data_rows, columns=headers),
\* after the coercions of get_processed_records.
ProcessRow(headers, row) ==
    [ User        |-> row[Col(headers, "User")],
      Amount      |-> fillna_num(to_numeric(row[Col(headers, "Amount")]), 0),
      Description |-> row[Col(headers, "Description")],
      Category    |-> fillna_obj(row[Col(headers, "Category")], "Uncategorized"),
      Type        |-> fillna_obj(row[Col(headers, "Type")], "Expense"),
      Date        |-> to_datetime(row[Col(headers, "Date")]) ]

\* get_processed_records() on worksheet rows s: the frame it returns (a
\* sequence of rows, << >> when df.empty) and the rows it leaves in the sheet.
get_processed_records(s) ==
    IF s = << >> THEN [sheet |-> ensure_headers(s), df |-> << >>]
    ELSE LET headers   == s[1]
             data_rows == Tail(s)
         IN IF data_rows = << >> THEN [sheet |-> s, df |-> << >>]
            ELSE IF ~HasCol(headers, "Amount") \/ ~HasCol(headers, "Date")
                 THEN [sheet |-> s, df |-> << >>]   \* KeyError, caught
            ELSE [sheet |-> s,
                  df |-> [i \in 1..Len(data_rows) |-> ProcessRow(headers, data_rows[i])]]

\* ---------------------------------------------------------------- filters
\* df[df['User'] == user]
filter_user(df, user) == SelectSeq(df, LAMBDA r : r.User = user)

\* df[df['Type'] == type]
filter_type(df, type) == SelectSeq(df, LAMBDA r : r.Type = type)

\* df[df['Date'].dt.strftime('%Y-%m') == current_month]
filter_month(df, today) ==
    SelectSeq(df, LAMBDA r : ~r.Date.nat /\ StrftimeYm(r.Date.ord) = StrftimeYm(today))

\* df[df['Date'].dt.isocalendar().week == current_week]
filter_week(df, today) ==
    SelectSeq(df, LAMBDA r : ~r.Date.nat /\ IsoWeek(r.Date.ord) = IsoWeek(today))

\* filter_period changed to drop the rows without a date for every period
filter_period_dated(df, period, today) ==
    IF period = "month" THEN filter_month(df, today)
    ELSE IF period = "week" THEN filter_week(df, today)
    ELSE SelectSeq(df, LAMBDA r : ~r.Date.nat)

\* The period branch shared by balance, total, summary and filter_data_by_period
filter_period(df, period, today) ==
    IF period = "month" THEN filter_month(df, today)
    ELSE IF period = "week" THEN filter_week(df, today)
    ELSE df

period_text(period) ==
    IF period = "month" THEN "this month"
    ELSE IF period = "week" THEN "this week"
    ELSE "all time"

\* ---------------------------------------------------------------- aggregator
\* df['Amount'].sum()
RECURSIVE SumAmount(_)
SumAmount(df) == IF df = << >> THEN 0 ELSE Head(df).Amount + SumAmount(Tail(df))

\* Category labels in the order Python compares str
CategoryOrder == <<"", "Food", "Rent", "Salary", "Uncategorized">>

\* df.groupby('Category')['Amount'].sum(): one entry per category present,
\* keys in sorted order
RECURSIVE GroupFrom(_, _)
GroupFrom(df, k) ==
    IF k > Len(CategoryOrder) THEN << >>
    ELSE LET part == SelectSeq(df, LAMBDA r : r.Category = CategoryOrder[k])
         IN (IF part = << >> THEN << >>
             ELSE << [Category |-> CategoryOrder[k], Amount |-> SumAmount(part)] >>)
            \o GroupFrom(df, k + 1)
\* groupby_category changed to keep the last amount of a category, not the sum
RECURSIVE GroupLastFrom(_, _)
GroupLastFrom(df, k) ==
    IF k > Len(CategoryOrder) THEN << >>
    ELSE LET part == SelectSeq(df, LAMBDA r : r.Category = CategoryOrder[k])
         IN (IF part = << >> THEN << >>
             ELSE << [Category |-> CategoryOrder[k], Amount |-> part[Len(part)].Amount] >>)
            \o GroupLastFrom(df, k + 1)
groupby_category_last(df) == GroupLastFrom(df, 1)

groupby_category(df) == GroupFrom(df, 1)

IsDescending(g) == \A i \in 1..(Len(g) - 1) : g[i].Amount >= g[i + 1].Amount

\* Series.sort_values(ascending=False) with the default kind 'quicksort', which
\* is not stable: every descending arrangement of the entries is an outcome.
sort_values(g) ==
    { p \in { [i \in 1..Len(g) |-> g[f[i]]] : f \in Permutations(1..Len(g)) } :
        IsDescending(p) }

\* ---------------------------------------------------------------- time series
\* The rows of df with a valid date (groupby drops the rows whose Day is NaT)
dropna_day(df) == SelectSeq(df, LAMBDA r : ~r.Date.nat)

\* df['Date'].min().date() / .max().date() over the valid dates
MinDay(df) == CHOOSE d \in {df[i].Date.ord : i \in 1..Len(df)} :
                  \A i \in 1..Len(df) : d <= df[i].Date.ord
MaxDay(df) == CHOOSE d \in {df[i].Date.ord : i \in 1..Len(df)} :
                  \A i \in 1..Len(df) : d >= df[i].Date.ord

\* df.groupby('Day')['Amount'].sum().reset_index(): one row per day present,
\* days ascending
RECURSIVE GroupDays(_)
GroupDays(df) ==
    IF df = << >> THEN << >>
    ELSE LET d    == MinDay(df)
             part == SelectSeq(df, LAMBDA r : r.Date.ord = d)
             rest == SelectSeq(df, LAMBDA r : r.Date.ord # d)
         IN << [Day |-> d, Amount |-> SumAmount(part)] >> \o GroupDays(rest)
groupby_day(df) == GroupDays(dropna_day(df))

\* date_range changed to leave out the end day
date_range_open(start_date, end_date) ==
    [i \in 1..(end_date - start_date) |-> start_date + (i - 1)]

\* pd.date_range(start=start_date, end=end_date, freq='D')
date_range(start_date, end_date) ==
    [i \in 1..(end_date - start_date + 1) |-> start_date + (i - 1)]

\* The amounts a left merge on 'Day' pairs with one day: one per matching row
\* of daily, a single NaN when there is none
MergeAmounts(day, daily) ==
    LET hit == SelectSeq(daily, LAMBDA r : r.Day = day)
    IN IF hit = << >> THEN << [nan |-> TRUE, val |-> 0] >>
       ELSE [j \in 1..Len(hit) |-> [nan |-> FALSE, val |-> hit[j].Amount]]

\* The rows that date_df.merge(daily_income, how='left') and then
\* .merge(daily_expense, how='left') make of one day, after fillna(0) and
\* Balance = Income - Expense: one row per pair of matches
MergeDay(day, daily_income, daily_expense) ==
    LET inc == MergeAmounts(day, daily_income)
        exp == MergeAmounts(day, daily_expense)
    IN [k \in 1..(Len(inc) * Len(exp)) |->
          LET a == inc[((k - 1) \div Len(exp)) + 1]
              b == exp[((k - 1) % Len(exp)) + 1]
          IN [ Day     |-> day,
               Income  |-> fillna_num(a, 0),
               Expense |-> fillna_num(b, 0),
               Balance |-> fillna_num(a, 0) - fillna_num(b, 0) ]]

\* The merged rows of all_dates[lo..hi] in day order (halving keeps the
\* evaluation shallow on a range of hundreds of days)
RECURSIVE MergeFrom(_, _, _, _, _)
MergeFrom(all_dates, daily_income, daily_expense, lo, hi) ==
    IF lo > hi THEN << >>
    ELSE IF lo = hi THEN MergeDay(all_dates[lo], daily_income, daily_expense)
    ELSE LET mid == (lo + hi) \div 2
         IN MergeFrom(all_dates, daily_income, daily_expense, lo, mid)
            \o MergeFrom(all_dates, daily_income, daily_expense, mid + 1, hi)

\* date_df['Balance'].cumsum() over rows[lo..hi], the running total being acc
\* before rows[lo]
RECURSIVE cumsum(_, _, _, _)
cumsum(rows, lo, hi, acc) ==
    IF lo > hi THEN << >>
    ELSE IF lo = hi
    THEN << [Day |-> rows[lo].Day, Income |-> rows[lo].Income,
             Expense |-> rows[lo].Expense, Balance |-> rows[lo].Balance,
             Cumulative |-> acc + rows[lo].Balance] >>
    ELSE LET mid  == (lo + hi) \div 2
             left == cumsum(rows, lo, mid, acc)
         IN left \o cumsum(rows, mid + 1, hi, left[Len(left)].Cumulative)

\* start_date of the period's range
start_date(df, ptext, today) ==
    IF ptext = "this month" THEN Ymd2Ord(YearOf(today), MonthOf(today), 1)
    ELSE IF ptext = "this week" THEN today - weekday(today)
    ELSE MinDay(dropna_day(df))

\* end_date of the period's range
end_date(df, ptext, today) ==
    IF ptext = "this month"
    THEN Ymd2Ord(YearOf(today), MonthOf(today), monthrange(YearOf(today), MonthOf(today)))
    ELSE IF ptext = "this week" THEN today
    ELSE MaxDay(dropna_day(df))

\* The date_df of the balance_over_time chart
balance_over_time(df, ptext, today) ==
    LET all_dates == date_range(start_date(df, ptext, today), end_date(df, ptext, today))
        date_df   == MergeFrom(all_dates,
                               groupby_day(filter_type(df, "Income")),
                               groupby_day(filter_type(df, "Expense")),
                               1, Len(all_dates))
    IN cumsum(date_df, 1, Len(date_df), 0)

\* ---------------------------------------------------------------- replies
\* A reply names the command and its arguments and what the message (or the
\* chart) carries.
Blank ==
    [ op |-> "", user |-> "", period |-> "", type |-> "", limit |-> 0,
      status |-> "", text |-> "",
      income |-> 0, expenses |-> 0, balance |-> 0, total |-> 0,
      income_by_category |-> << >>, expense_by_category |-> << >>,
      entries |-> << >>, date_df |-> << >> ]

Call(op, user, period, type, limit) ==
    [Blank EXCEPT !.op = op, !.user = user, !.period = period, !.type = type,
                  !.limit = limit]

Unavailable(call) ==
    [call EXCEPT !.status = "unavailable",
                 !.text = "Google Sheets connection is not available."]
NoData(call, text) == [call EXCEPT !.status = "nodata", !.text = text]
Failed(call, text) == [call EXCEPT !.status = "error", !.text = text]

\* ---------------------------------------------------------------- recording
\* on_ready(): the header set-up at connection time
on_ready ==
    /\ sheet' = IF worksheet = "None" THEN sheet ELSE ensure_headers(sheet)
    /\ reply' = [Call("on_ready", "", "", "", 0) EXCEPT
                    !.status = IF worksheet = "None" THEN "unavailable" ELSE "ok"]
    /\ UNCHANGED <<worksheet, tick>>

\* category_autocomplete -> get_all_categories -> get_categories ->
\* get_processed_records, with no ensure_headers before it
category_autocomplete ==
    /\ sheet' = IF worksheet = "None" THEN sheet ELSE get_processed_records(sheet).sheet
    /\ reply' = [Call("category_autocomplete", "", "", "", 0) EXCEPT !.status = "ok"]
    /\ UNCHANGED <<worksheet, tick>>

\* The body shared by the four recording commands: ensure_headers, then
\* append_row of the six cells
Record(op, user, amount, description, category, type) ==
    /\ Len(ensure_headers(sheet)) <= MaxRows
    /\ IF worksheet = "None"
       THEN /\ reply' = Unavailable(Call(op, user, "", type, amount))
            /\ UNCHANGED sheet
       ELSE /\ sheet' = append_row(ensure_headers(sheet),
                            <<user, StrAmount(amount), description, category, type,
                              strftime(now)>>)
            /\ reply' = [Call(op, user, "", type, amount) EXCEPT
                            !.status = "ok", !.text = "has been recorded"]
    /\ UNCHANGED <<worksheet, tick>>

add_expense_prefix(user, amount, description) ==
    Record("add_expense_prefix", user, amount, description, "Uncategorized", "Expense")

add_income_prefix(user, amount, description) ==
    Record("add_income_prefix", user, amount, description, "Uncategorized", "Income")

add_expense(user, amount, description, category) ==
    Record("add_expense", user, amount,
           IF description = "" THEN "N/A" ELSE description, category, "Expense")

add_income(user, amount, description, category) ==
    Record("add_income", user, amount,
           IF description = "" THEN "N/A" ELSE description, category, "Income")

\* set_category(entry_id, category)
set_category(user, entry_id, category) ==
    LET call       == Call("set_category", user, "", category, entry_id)
        all_values == ensure_headers(sheet)
    IN /\ IF worksheet = "None"
          THEN reply' = Unavailable(call) /\ UNCHANGED sheet
          ELSE IF Len(all_values) <= 1
          THEN /\ sheet' = all_values
               /\ reply' = NoData(call, "No entries found to categorize.")
          ELSE IF 1 <= entry_id /\ entry_id <= Len(all_values) - 1
          THEN /\ sheet' = update_cell(all_values, entry_id + 1, 4, category)
               /\ reply' = [call EXCEPT !.status = "ok", !.text = "has been set"]
          ELSE /\ sheet' = all_values
               /\ reply' = [call EXCEPT !.status = "invalid", !.text = "Invalid entry ID."]
       /\ UNCHANGED <<worksheet, tick>>

\* set_category_prefix(entry_id, category): the !category command
set_category_prefix(user, entry_id, category) ==
    LET call       == Call("set_category_prefix", user, "", category, entry_id)
        all_values == ensure_headers(sheet)
    IN /\ IF worksheet = "None"
          THEN reply' = Unavailable(call) /\ UNCHANGED sheet
          ELSE IF Len(all_values) <= 1
          THEN /\ sheet' = all_values
               /\ reply' = NoData(call, "No entries found to categorize.")
          ELSE IF 1 <= entry_id /\ entry_id <= Len(all_values) - 1
          THEN /\ sheet' = update_cell(all_values, entry_id + 1, 4, category)
               /\ reply' = [call EXCEPT !.status = "ok", !.text = "has been set"]
          ELSE /\ sheet' = all_values
               /\ reply' = [call EXCEPT !.status = "invalid", !.text = "Invalid entry ID."]
       /\ UNCHANGED <<worksheet, tick>>

\* datetime.now() moves on to the next sampled instant
Tick ==
    /\ tick < Len(Clock)
    /\ tick' = tick + 1
    /\ UNCHANGED <<worksheet, sheet, reply>>

\* ---------------------------------------------------------------- reporting
\* Each reporting handler first answers "not available" when worksheet is None
\* and otherwise runs ensure_headers, reads the rows and answers from them.
\* X_replies(s, today, ...) is the set of answers handler X can give for
\* worksheet rows s read at day today.

\* balance(period): its answers
balance_replies(s, today, user, period) ==
    LET call == Call("balance", user, period, "", 0)
        got  == get_processed_records(ensure_headers(s))
        udf  == filter_user(got.df, user)
        df   == filter_period(udf, period, today)
        income   == SumAmount(filter_type(df, "Income"))
        expenses == SumAmount(filter_type(df, "Expense"))
    IN IF got.df = << >> THEN { NoData(call, "No transactions found.") }
       ELSE IF udf = << >> THEN { NoData(call, "You have no recorded transactions.") }
       ELSE { [call EXCEPT !.status = "ok",
                           !.text = period_text(period),
                           !.income = income,
                           !.expenses = expenses,
                           !.balance = income - expenses] }

\* balance(period)
balance(user, period) ==
    /\ IF worksheet = "None"
       THEN /\ reply' = Unavailable(Call("balance", user, period, "", 0))
            /\ UNCHANGED sheet
       ELSE /\ sheet' = get_processed_records(ensure_headers(sheet)).sheet
            /\ reply' \in balance_replies(sheet, now, user, period)
    /\ UNCHANGED <<worksheet, tick>>

\* balance_prefix(period), the !balance command: its answers
balance_prefix_replies(s, today, user, period) ==
    LET call == Call("balance_prefix", user, period, "", 0)
        got  == get_processed_records(ensure_headers(s))
        udf  == filter_user(got.df, user)
        df   == filter_period(udf, period, today)
        income   == SumAmount(filter_type(df, "Income"))
        expenses == SumAmount(filter_type(df, "Expense"))
    IN IF got.df = << >> THEN { NoData(call, "No transactions found.") }
       ELSE IF udf = << >> THEN { NoData(call, "You have no recorded transactions.") }
       ELSE { [call EXCEPT !.status = "ok",
                           !.text = period_text(period),
                           !.income = income,
                           !.expenses = expenses,
                           !.balance = income - expenses] }

\* balance_prefix(period)
balance_prefix(user, period) ==
    /\ IF worksheet = "None"
       THEN /\ reply' = Unavailable(Call("balance_prefix", user, period, "", 0))
            /\ UNCHANGED sheet
       ELSE /\ sheet' = get_processed_records(ensure_headers(sheet)).sheet
            /\ reply' \in balance_prefix_replies(sheet, now, user, period)
    /\ UNCHANGED <<worksheet, tick>>

\* total_entries(period, type): its answers
total_entries_replies(s, today, user, period, type) ==
    LET call == Call("total_entries", user, period, type, 0)
        got  == get_processed_records(ensure_headers(s))
        udf  == filter_user(got.df, user)
        pdf  == filter_period(udf, period, today)
        df   == IF type # "All" THEN filter_type(pdf, type) ELSE pdf
    IN IF got.df = << >> THEN { NoData(call, "No transactions found.") }
       ELSE IF udf = << >> THEN { NoData(call, "You have no recorded transactions.") }
       ELSE IF df = << >> THEN { NoData(call, "No entries found for the period.") }
       ELSE { [call EXCEPT !.status = "ok",
                           !.text = period_text(period),
                           !.total = SumAmount(df)] }

\* total_entries(period, type)
total_entries(user, period, type) ==
    /\ IF worksheet = "None"
       THEN /\ reply' = Unavailable(Call("total_entries", user, period, type, 0))
            /\ UNCHANGED sheet
       ELSE /\ sheet' = get_processed_records(ensure_headers(sheet)).sheet
            /\ reply' \in total_entries_replies(sheet, now, user, period, type)
    /\ UNCHANGED <<worksheet, tick>>

\* financial_summary_replies changed to keep only the records of the type
\* asked for
financial_summary_replies_typed(s, today, user, period, type) ==
    LET call == Call("financial_summary", user, period, type, 0)
        got  == get_processed_records(ensure_headers(s))
        udf  == filter_user(got.df, user)
        pdf  == filter_period(udf, period, today)
        df   == IF type # "All" THEN filter_type(pdf, type) ELSE pdf
        income_df  == filter_type(df, "Income")
        expense_df == filter_type(df, "Expense")
    IN IF got.df = << >> THEN { NoData(call, "No transactions found.") }
       ELSE IF udf = << >> THEN { NoData(call, "You have no recorded transactions.") }
       ELSE IF df = << >> THEN { NoData(call, "No transactions found for the period.") }
       ELSE { [call EXCEPT
                 !.status = "ok",
                 !.text = period_text(period),
                 !.income = SumAmount(income_df),
                 !.expenses = SumAmount(expense_df),
                 !.balance = SumAmount(income_df) - SumAmount(expense_df),
                 !.income_by_category = income_by_category,
                 !.expense_by_category = expense_by_category] :
              income_by_category \in sort_values(groupby_category(income_df)),
              expense_by_category \in sort_values(groupby_category(expense_df)) }

\* financial_summary(period, type): its answers
financial_summary_replies(s, today, user, period, type) ==
    LET call == Call("financial_summary", user, period, type, 0)
        got  == get_processed_records(ensure_headers(s))
        udf  == filter_user(got.df, user)
        df   == filter_period(udf, period, today)
        income_df  == filter_type(df, "Income")
        expense_df == filter_type(df, "Expense")
    IN IF got.df = << >> THEN { NoData(call, "No transactions found.") }
       ELSE IF udf = << >> THEN { NoData(call, "You have no recorded transactions.") }
       ELSE IF df = << >> THEN { NoData(call, "No transactions found for the period.") }
       ELSE { [call EXCEPT
                 !.status = "ok",
                 !.text = period_text(period),
                 !.income = SumAmount(income_df),
                 !.expenses = SumAmount(expense_df),
                 !.balance = SumAmount(income_df) - SumAmount(expense_df),
                 !.income_by_category = income_by_category,
                 !.expense_by_category = expense_by_category] :
              income_by_category \in sort_values(groupby_category(income_df)),
              expense_by_category \in sort_values(groupby_category(expense_df)) }

\* financial_summary(period, type)
financial_summary(user, period, type) ==
    /\ IF worksheet = "None"
       THEN /\ reply' = Unavailable(Call("financial_summary", user, period, type, 0))
            /\ UNCHANGED sheet
       ELSE /\ sheet' = get_processed_records(ensure_headers(sheet)).sheet
            /\ reply' \in financial_summary_replies(sheet, now, user, period, type)
    /\ UNCHANGED <<worksheet, tick>>

\* df.sort_values('Date', ascending=False): dated rows by date descending (in
\* any order among equal dates), then the NaT rows in their frame order
sort_by_date(df) ==
    LET dated == dropna_day(df)
        nat   == SelectSeq(df, LAMBDA r : r.Date.nat)
    IN { p \o nat :
           p \in { q \in { [i \in 1..Len(dated) |-> dated[f[i]]] :
                             f \in Permutations(1..Len(dated)) } :
                     \A i \in 1..(Len(q) - 1) : q[i].Date.ord >= q[i + 1].Date.ord } }

\* DataFrame.head(n): the first n rows, all but the last -n rows when n < 0
head(df, n) ==
    IF n >= 0 THEN SubSeq(df, 1, IF n < Len(df) THEN n ELSE Len(df))
    ELSE SubSeq(df, 1, IF Len(df) + n > 0 THEN Len(df) + n ELSE 0)

\* financial_history(limit, type): its answers
financial_history_replies(s, user, limit, type) ==
    LET call == Call("financial_history", user, "", type, limit)
        got  == get_processed_records(ensure_headers(s))
        udf  == filter_user(got.df, user)
        df   == IF type # "All" THEN filter_type(udf, type) ELSE udf
    IN IF got.df = << >> THEN { NoData(call, "No transactions found.") }
       ELSE IF udf = << >> THEN { NoData(call, "You have no recorded transactions.") }
       ELSE IF df = << >> THEN { NoData(call, "No entries found.") }
       ELSE { [call EXCEPT !.status = "ok", !.entries = head(sorted, limit)] :
              sorted \in sort_by_date(df) }

\* financial_history(limit, type)
financial_history(user, limit, type) ==
    /\ IF worksheet = "None"
       THEN /\ reply' = Unavailable(Call("financial_history", user, "", type, limit))
            /\ UNCHANGED sheet
       ELSE /\ sheet' = get_processed_records(ensure_headers(sheet)).sheet
            /\ reply' \in financial_history_replies(sheet, user, limit, type)
    /\ UNCHANGED <<worksheet, tick>>

\* ---------------------------------------------------------------- charts
\* filter_data_by_period(df, interaction, period): the frame and the label
filter_data_by_period(df, user, period, today) ==
    IF df = << >> THEN [df |-> << >>, period_text |-> "No data"]
    ELSE IF filter_user(df, user) = << >>
    THEN [df |-> << >>, period_text |-> "No user data"]
    ELSE [df |-> filter_period(filter_user(df, user), period, today),
          period_text |-> period_text(period)]

\* plt.pie(x): it raises ValueError for a negative wedge size
PieRaises(by_cat) == \E i \in 1..Len(by_cat) : by_cat[i].Amount < 0

\* generate_chart_image(df, chart_type, period_text) for a frame that is not
\* empty: the data series it can draw, or the exception it raises
generate_chart_image(call, df, chart_type, ptext, today) ==
    IF chart_type = "expense_by_category"
    THEN IF filter_type(df, "Expense") = << >>
         THEN { [call EXCEPT !.status = "ok", !.text = "No expense data available"] }
         ELSE { IF PieRaises(g) THEN Failed(call, "Error generating chart")
                ELSE [call EXCEPT !.status = "ok", !.text = ptext,
                                  !.expense_by_category = g] :
                g \in sort_values(groupby_category(filter_type(df, "Expense"))) }
    ELSE IF chart_type = "income_by_category"
    THEN IF filter_type(df, "Income") = << >>
         THEN { [call EXCEPT !.status = "ok", !.text = "No income data available"] }
         ELSE { IF PieRaises(g) THEN Failed(call, "Error generating chart")
                ELSE [call EXCEPT !.status = "ok", !.text = ptext,
                                  !.income_by_category = g] :
                g \in sort_values(groupby_category(filter_type(df, "Income"))) }
    ELSE IF chart_type = "balance_over_time"
    THEN IF ptext = "all time" /\ dropna_day(df) = << >>
         THEN { Failed(call, "Error generating chart") }  \* date_range of NaT
         ELSE { [call EXCEPT !.status = "ok", !.text = ptext,
                             !.date_df = balance_over_time(df, ptext, today)] }
    ELSE { [call EXCEPT !.status = "ok", !.text = ptext,
                        !.income = SumAmount(filter_type(df, "Income")),
                        !.expenses = SumAmount(filter_type(df, "Expense")),
                        !.balance = SumAmount(filter_type(df, "Income"))
                                    - SumAmount(filter_type(df, "Expense"))] }

\* financial_chart(chart_type, period): its answers
financial_chart_replies(s, today, user, chart_type, period) ==
    LET call == Call("financial_chart", user, period, chart_type, 0)
        got  == get_processed_records(ensure_headers(s))
        flt  == filter_data_by_period(got.df, user, period, today)
    IN IF flt.df = << >>
       THEN { NoData(call, "No data available for " \o flt.period_text) }
       ELSE generate_chart_image(call, flt.df, chart_type, flt.period_text, today)

\* financial_chart(chart_type, period)
financial_chart(user, chart_type, period) ==
    /\ IF worksheet = "None"
       THEN /\ reply' = Unavailable(Call("financial_chart", user, period, chart_type, 0))
            /\ UNCHANGED sheet
       ELSE /\ sheet' = get_processed_records(ensure_headers(sheet)).sheet
            /\ reply' \in financial_chart_replies(sheet, now, user, chart_type, period)
    /\ UNCHANGED <<worksheet, tick>>

\* ---------------------------------------------------------------- behaviour
Init ==
    /\ worksheet \in {"sheet1", "None"}
    /\ sheet \in InitSheets
    /\ tick = 1
    /\ reply = Blank

\* A handler runs to its response before the next command is taken up.
Idle == reply = Blank

\* The response has gone out
Deliver ==
    /\ reply # Blank
    /\ reply' = Blank
    /\ UNCHANGED <<worksheet, sheet, tick>>

OnReady == Idle /\ on_ready
CategoryAutocomplete == Idle /\ category_autocomplete
AddExpensePrefix ==
    Idle /\ \E a \in ExpensePrefixArgs : add_expense_prefix(a[1], a[2], a[3])
AddIncomePrefix ==
    Idle /\ \E a \in IncomePrefixArgs : add_income_prefix(a[1], a[2], a[3])
AddExpense == Idle /\ \E a \in ExpenseArgs : add_expense(a[1], a[2], a[3], a[4])
AddIncome == Idle /\ \E a \in IncomeArgs : add_income(a[1], a[2], a[3], a[4])
SetCategory ==
    Idle /\ \E u \in Users, e \in 0..(MaxRows + 1), c \in Categories : set_category(u, e, c)
SetCategoryPrefix ==
    Idle /\ \E u \in Users, e \in 0..(MaxRows + 1), c \in Categories :
               set_category_prefix(u, e, c)
Balance == Idle /\ \E u \in Users, p \in Periods : balance(u, p)
BalancePrefix == Idle /\ \E u \in Users, p \in Periods : balance_prefix(u, p)
TotalEntries ==
    Idle /\ \E u \in Users, p \in Periods, t \in Types : total_entries(u, p, t)
FinancialSummary ==
    Idle /\ \E u \in Users, p \in Periods, t \in Types : financial_summary(u, p, t)
FinancialHistory ==
    Idle /\ \E u \in Users, l \in Limits, t \in Types : financial_history(u, l, t)
FinancialChart ==
    Idle /\ \E u \in Users, c \in ChartTypes, p \in Periods : financial_chart(u, c, p)
ClockTick == Idle /\ Tick

Next ==
    \/ OnReady
    \/ CategoryAutocomplete
    \/ AddExpensePrefix
    \/ AddIncomePrefix
    \/ AddExpense
    \/ AddIncome
    \/ SetCategory
    \/ SetCategoryPrefix
    \/ Balance
    \/ BalancePrefix
    \/ TotalEntries
    \/ FinancialSummary
    \/ FinancialHistory
    \/ FinancialChart
    \/ ClockTick
    \/ Deliver

Spec == Init /\ [][Next]_vars

\* ---------------------------------------------------------------- properties
\* What the claims below speak about: the frame a handler builds from the rows
\* at hand, and the part of it left by the user and period filters of the
\* command being answered.
ReportOps == {"balance", "balance_prefix", "total_entries", "financial_summary",
              "financial_history", "financial_chart"}
Answered == reply.op \in ReportOps /\ reply.status # "unavailable"
Frame == get_processed_records(sheet).df
OfUser == filter_user(Frame, reply.user)
Filtered == filter_period(OfUser, reply.period, now)
Net(df) == SumAmount(filter_type(df, "Income")) - SumAmount(filter_type(df, "Expense"))
SeriesReply ==
    /\ reply.op = "financial_chart"
    /\ reply.type = "balance_over_time"
    /\ reply.status = "ok"
SummaryReply == reply.op = "financial_summary" /\ reply.status = "ok"
Last(q) == q[Len(q)]

\* Every category label of the model has its place in CategoryOrder
CategoriesKnown ==
    \A i \in 1..Len(Frame) : \E k \in 1..Len(CategoryOrder) : Frame[i].Category = CategoryOrder[k]

\* C1: a reporting command (balance, total, summary, history, chart) leaves
\* the row store exactly as it found it, whatever the first row is.
C1_ReportsAreReadOnly ==
    [][(Balance \/ TotalEntries \/ FinancialSummary \/ FinancialHistory \/ FinancialChart)
         => sheet' = sheet]_vars

\* C2: when no record is left after the user and period filters, the report
\* answers "no data" and never a zero-valued result.
C2_EmptySetIsNoData ==
    (Answered /\ Filtered = << >>) => reply.status = "nodata"

\* C3: for period week a record of the user passes the period filter exactly
\* when its date lies between the Monday and the Sunday of the ISO week of now.
InIsoWeek(today, r) ==
    /\ ~r.Date.nat
    /\ today - weekday(today) <= r.Date.ord
    /\ r.Date.ord <= today - weekday(today) + 6
C3_WeekFilterIsIsoWeek ==
    (Answered /\ reply.period = "week") =>
        Filtered = SelectSeq(OfUser, LAMBDA r : InIsoWeek(now, r))

\* C4: for period week the daily series runs from the Monday to the Sunday of
\* the ISO week of now.
C4_WeekRangeMondayToSunday ==
    (SeriesReply /\ reply.period = "week") =>
        /\ reply.date_df # << >>
        /\ reply.date_df[1].Day = now - weekday(now)
        /\ Last(reply.date_df).Day = now - weekday(now) + 6

\* C5: every normalized amount is >= 0, in every ledger the recording
\* commands can build.
C5_AmountsNonNegative == \A i \in 1..Len(Frame) : Frame[i].Amount >= 0

\* C6: after normalization the kind of every record is Income or Expense.
C6_KindIsIncomeOrExpense ==
    Answered => \A i \in 1..Len(Frame) : Frame[i].Type \in {"Income", "Expense"}

\* C7: the cumulative balance at the last day of the series equals the net
\* balance of the dated records of the same filtered set, for all, month, week.
C7_CumulativeEqualsNet ==
    SeriesReply =>
        /\ reply.date_df # << >>
        /\ Last(reply.date_df).Cumulative = Net(dropna_day(Filtered))

\* C8: for a date range [start, end] of D days the series has exactly D
\* points, the i-th being day start + i - 1, and a day on which the filtered
\* set has no record of a kind carries sum 0 for that kind.
DaySum(df, type, day) ==
    SumAmount(SelectSeq(filter_type(df, type), LAMBDA r : ~r.Date.nat /\ r.Date.ord = day))
HasOn(df, type, day) ==
    \E i \in 1..Len(df) : df[i].Type = type /\ ~df[i].Date.nat /\ df[i].Date.ord = day
C8_SeriesCoversEveryDayOnce ==
    SeriesReply =>
        LET S     == reply.date_df
            first == start_date(Filtered, reply.text, now)
            last  == end_date(Filtered, reply.text, now)
        IN /\ Len(S) = last - first + 1
           /\ \A i \in 1..Len(S) :
                /\ S[i].Day = first + (i - 1)
                /\ ~HasOn(Filtered, "Income", S[i].Day) => S[i].Income = 0
                /\ ~HasOn(Filtered, "Expense", S[i].Day) => S[i].Expense = 0
                /\ S[i].Income = DaySum(Filtered, "Income", S[i].Day)
                /\ S[i].Expense = DaySum(Filtered, "Expense", S[i].Day)

\* C8 witness: a series of several days has gone out, one of its days with a
\* transaction and one without any.
C8_Witness ==
    /\ SeriesReply
    /\ Len(reply.date_df) >= 3
    /\ \E i \in 1..Len(reply.date_df) :
          HasOn(Filtered, "Expense", reply.date_df[i].Day) /\ reply.date_df[i].Expense # 0
    /\ \E i \in 1..Len(reply.date_df) :
          /\ ~HasOn(Filtered, "Expense", reply.date_df[i].Day)
          /\ ~HasOn(Filtered, "Income", reply.date_df[i].Day)

\* C9: a category breakdown lists its entries by descending sum, and entries
\* with equal sums in the order in which their categories first occur in the
\* filtered records.
FirstSeen(df, c) == CHOOSE i \in 1..Len(df) : df[i].Category = c /\ \A j \in 1..(i - 1) : df[j].Category # c
FirstSeenOrder(g, df) ==
    \A i \in 1..(Len(g) - 1) :
        \/ g[i].Amount > g[i + 1].Amount
        \/ /\ g[i].Amount = g[i + 1].Amount
           /\ FirstSeen(df, g[i].Category) < FirstSeen(df, g[i + 1].Category)
BreakdownReply ==
    \/ SummaryReply
    \/ /\ reply.op = "financial_chart"
       /\ reply.type \in {"expense_by_category", "income_by_category"}
       /\ reply.status = "ok"
C9_TiesInFirstSeenOrder ==
    BreakdownReply =>
        /\ FirstSeenOrder(reply.income_by_category, filter_type(Filtered, "Income"))
        /\ FirstSeenOrder(reply.expense_by_category, filter_type(Filtered, "Expense"))

\* C10: in a summary the sums of the breakdown of a kind add up to the total
\* of that kind over the filtered set, every category of the kind is listed,
\* and none is listed twice.
Partition(g, df) ==
    /\ SumAmount(g) = SumAmount(df)
    /\ \A i \in 1..Len(df) : \E k \in 1..Len(g) : g[k].Category = df[i].Category
    /\ \A k \in 1..Len(g) : \E i \in 1..Len(df) : g[k].Category = df[i].Category
    /\ \A k, l \in 1..Len(g) : g[k].Category = g[l].Category => k = l
C10_BreakdownSumsToTotal ==
    SummaryReply =>
        /\ Partition(reply.income_by_category, filter_type(Filtered, "Income"))
        /\ Partition(reply.expense_by_category, filter_type(Filtered, "Expense"))
        /\ SumAmount(reply.income_by_category) = reply.income
        /\ SumAmount(reply.expense_by_category) = reply.expenses

\* C10 witness: a summary has gone out whose expense breakdown folds several
\* records of non-zero amount into one category.
C10_Witness ==
    /\ SummaryReply
    /\ reply.expense_by_category # << >>
    /\ Len(filter_type(Filtered, "Expense")) > Len(reply.expense_by_category)
    /\ \A i \in 1..Len(Filtered) : Filtered[i].Amount # 0

\* C11: a record whose date could not be parsed is left out by the month and
\* week filters and kept by the all filter: the figures of balance and total
\* for all count it, the figures for month and week are those of the dated
\* records alone.
Undated(df) == SelectSeq(df, LAMBDA r : r.Date.nat)
FigureReply ==
    /\ reply.op \in {"balance", "balance_prefix", "total_entries"}
    /\ reply.status = "ok"
C11_UnknownDateOnlyInAll ==
    FigureReply =>
        LET kept == IF reply.period = "all" THEN OfUser
                    ELSE filter_period(dropna_day(OfUser), reply.period, now)
            kind == IF reply.type \in {"Income", "Expense"}
                    THEN filter_type(kept, reply.type) ELSE kept
        IN /\ reply.period # "all" => Undated(Filtered) = << >>
           /\ reply.period = "all" => Undated(Filtered) = Undated(OfUser)
           /\ IF reply.op = "total_entries"
              THEN reply.total = SumAmount(kind)
              ELSE /\ reply.income = SumAmount(filter_type(kept, "Income"))
                   /\ reply.expenses = SumAmount(filter_type(kept, "Expense"))

\* C11 witness: an all-time balance has gone out that counts an income whose
\* date is unknown.
C11_Witness ==
    /\ reply.op = "balance" /\ reply.status = "ok" /\ reply.period = "all"
    /\ \E i \in 1..Len(OfUser) :
          OfUser[i].Date.nat /\ OfUser[i].Type = "Income" /\ OfUser[i].Amount > 0
    /\ reply.income > 0

\* C12: history returns records of the user (of the kind asked for) by date
\* descending with the unknown dates last, at most limit of them (none for a
\* limit of zero or less), and leaves out no record more recent than one it
\* returns.
HistoryReply == reply.op = "financial_history" /\ reply.status = "ok"
OfKind == IF reply.type = "All" THEN OfUser ELSE filter_type(OfUser, reply.type)
Newer(r, e) == ~r.Date.nat /\ (e.Date.nat \/ r.Date.ord > e.Date.ord)
CountNewer(df, e) == Cardinality({i \in 1..Len(df) : Newer(df[i], e)})
MostRecentFirst(q) == \A i \in 1..(Len(q) - 1) : ~Newer(q[i + 1], q[i])
C12_HistoryIsMostRecent ==
    HistoryReply =>
        /\ Len(reply.entries) <= (IF reply.limit > 0 THEN reply.limit ELSE 0)
        /\ MostRecentFirst(reply.entries)
        /\ \A i \in 1..Len(reply.entries) :
              /\ \E j \in 1..Len(OfKind) : OfKind[j] = reply.entries[i]
              /\ CountNewer(OfKind, reply.entries[i]) = CountNewer(reply.entries, reply.entries[i])

\* C13: a sheet whose first row holds the six column names in any order is
\* read by column name: after a reporting command the frame at hand is the
\* frame of the same rows laid out in the canonical column order.
ReportStep ==
    \/ Balance \/ BalancePrefix \/ TotalEntries \/ FinancialSummary
    \/ FinancialHistory \/ FinancialChart
SameNames(row) ==
    /\ Len(row) = Len(HEADERS)
    /\ \A c \in 1..Len(HEADERS) : HasCol(row, HEADERS[c])
Canonical(s) ==
    << HEADERS >> \o
    [i \in 1..(Len(s) - 1) |-> [c \in 1..Len(HEADERS) |-> s[i + 1][Col(s[1], HEADERS[c])]]]
C13_HeaderOrderTolerated ==
    [][(ReportStep /\ worksheet # "None" /\ sheet # << >> /\ SameNames(sheet[1]))
         => get_processed_records(sheet').df = get_processed_records(Canonical(sheet)).df]_vars

\* C14: no reporting command ends in an error because of the data it reads:
\* whatever the rows are, it answers with a result or with "no data".
C14_NoReportFails == Answered => reply.status \in {"ok", "nodata"}

Replies(s, today, r) ==
    IF r.op = "balance" THEN balance_replies(s, today, r.user, r.period)
    ELSE IF r.op = "balance_prefix" THEN balance_prefix_replies(s, today, r.user, r.period)
    ELSE IF r.op = "total_entries"
    THEN total_entries_replies(s, today, r.user, r.period, r.type)
    ELSE IF r.op = "financial_summary"
    THEN financial_summary_replies(s, today, r.user, r.period, r.type)
    ELSE IF r.op = "financial_history"
    THEN financial_history_replies(s, r.user, r.limit, r.type)
    ELSE financial_chart_replies(s, today, r.user, r.type, r.period)
C16_RerunGivesSameResult ==
    Answered =>
        /\ get_processed_records(ensure_headers(sheet)).sheet = sheet
        /\ reply \in Replies(sheet, now, reply)

\* C16 witness: a summary with an expense breakdown has gone out on a ledger
\* of several rows.
C16_Witness ==
    /\ SummaryReply
    /\ reply.expenses > 0
    /\ reply.expense_by_category # << >>
    /\ Len(sheet) >= 3

\* C17: the category command on a store with N data rows writes the category
\* into column 4 of sheet row entry_id + 1 and changes no other cell when
\* 1 <= entry_id <= N; otherwise it leaves the data rows as they are and
\* answers invalid id or no entries.
DataRows(s) == IF s = << >> THEN << >> ELSE Tail(s)
CategoryStep == (SetCategory \/ SetCategoryPrefix) /\ worksheet # "None"
C17_CategoryWritesOneCell ==
    [][CategoryStep =>
         LET N        == Len(DataRows(sheet))
             entry_id == reply'.limit
             category == reply'.type
         IN IF 1 <= entry_id /\ entry_id <= N
            THEN /\ reply'.status = "ok"
                 /\ sheet' = [sheet EXCEPT ![entry_id + 1][4] = category]
            ELSE /\ reply'.status \in {"invalid", "nodata"}
                 /\ DataRows(sheet') = DataRows(sheet)]_vars

\* C18: a successful recording command appends exactly one row at the end of
\* the ledger, with the caller as user and the kind of the command, and leaves
\* every transaction row already there unchanged and in place.
RecordStep == AddExpensePrefix \/ AddIncomePrefix \/ AddExpense \/ AddIncome
TransactionRows(s) == SelectSeq(s, LAMBDA row : ~SameNames(row))
C18_RecordAppendsOneRow ==
    [][(RecordStep /\ reply'.status = "ok") =>
         /\ Len(TransactionRows(sheet')) = Len(TransactionRows(sheet)) + 1
         /\ SubSeq(TransactionRows(sheet'), 1, Len(TransactionRows(sheet)))
               = TransactionRows(sheet)
         /\ Last(sheet')[1] = reply'.user
         /\ Last(sheet')[5] = (IF reply'.op \in {"add_expense", "add_expense_prefix"}
                               THEN "Expense" ELSE "Income")]_vars

\* C19: after ensure_headers on an available worksheet the first row is the
\* canonical header, a second call changes nothing, and every transaction row
\* is still there unaltered, also one that stood in the first row.
C19_HeaderRepairKeepsRows ==
    [][(OnReady /\ worksheet # "None") =>
         /\ sheet' # << >> /\ sheet'[1] = HEADERS
         /\ ensure_headers(sheet') = sheet'
         /\ TransactionRows(sheet') = TransactionRows(sheet)]_vars

\* C20: no command issued by a user changes the records that the reports of
\* another user are computed from, so it changes none of that user's reports.
ReportFrame(s) == get_processed_records(ensure_headers(s)).df
C20_OtherUsersCannotInterfere ==
    [][\A u \in Users :
          (reply'.user \in Users /\ reply'.user # u) =>
             filter_user(ReportFrame(sheet'), u) = filter_user(ReportFrame(sheet), u)]_vars

\* C21: for every user and period the total that total reports for type All
\* equals its total for Income plus its total for Expense, and equals the
\* income figure plus the expenses figure that balance reports.
TheReply(S) == CHOOSE r \in S : TRUE
TotalOf(u, p, t) ==
    LET r == TheReply(total_entries_replies(sheet, now, u, p, t))
    IN IF r.status = "ok" THEN r.total ELSE 0
BalanceOf(u, p) == TheReply(balance_replies(sheet, now, u, p))
C21_TotalAllIsIncomePlusExpense ==
    worksheet # "None" =>
    \A u \in Users, p \in Periods :
        /\ TotalOf(u, p, "All") = TotalOf(u, p, "Income") + TotalOf(u, p, "Expense")
        /\ BalanceOf(u, p).status = "ok" =>
              TotalOf(u, p, "All") = BalanceOf(u, p).income + BalanceOf(u, p).expenses
====
